---- MODULE Spec2Model ----
(***************************************************************************)
(* LIO-SAM processing scripts: the batch command                           *)
(* (scripts/process_liosam_batch.py), the single-session command and the   *)
(* "liosam" stage (scripts/process_liosam.py) and the "liosam_config"      *)
(* stage (scripts/liosam_config.py).  The xbag library the scripts call    *)
(* (pipeline.run, ManagedProcess, bag.record, session.play) and click's    *)
(* standalone handling of an escaping KeyboardInterrupt are modelled from  *)
(* the specification of the engine.                                        *)
(***************************************************************************)
EXTENDS Integers, Sequences, FiniteSets, TLC

\* ------------------------------------------------------------------ bounds
NumSessions == 2          \* sessions in the dataset
MaxRuns == 2              \* command invocations over the same output tree
MaxLidars == 2            \* 3D LiDARs of a session given to generate_config

\* ------------------------------------------------------------ data model
\* Sensor names the dataset may carry, with name.lower() and the vendor
\* substrings the lowered name contains.
Lower(name) ==
    CASE name = "Velodyne_Top"  -> "velodyne_top"
      [] name = "Velodyne_Rear" -> "velodyne_rear"
      [] name = "OS1_Ouster"    -> "os1_ouster"
      [] name = "hesai_front"   -> "hesai_front"
      [] OTHER                  -> name

Contains(text, v) ==
    CASE v = "velodyne" -> text \in {"velodyne_top", "velodyne_rear"}
      [] v = "ouster"   -> text \in {"os1_ouster", "ouster_bare"}
      [] OTHER          -> FALSE

Velodyne == [name |-> "Velodyne_Top", frame_id |-> "velodyne", cloud_topic |-> "/velodyne_points"]
Ouster   == [name |-> "OS1_Ouster", frame_id |-> "os_sensor", cloud_topic |-> "/ouster/points"]
Imu      == [name |-> "imu", frame_id |-> "imu_link", imu_topic |-> "/imu/data"]

\* session.has_bags, session.sensors.lidars_3d, session.sensors.imus and the
\* state of calibration/default.yaml as the TF tree sees it.
GoodSession  == [has_bags |-> TRUE, lidars_3d |-> <<Ouster, Velodyne>>, imus |-> <<Imu>>, calib |-> "ok"]
NoImuSession == [has_bags |-> TRUE, lidars_3d |-> <<Velodyne>>, imus |-> <<>>, calib |-> "ok"]
NoBagSession == [has_bags |-> FALSE, lidars_3d |-> <<Velodyne>>, imus |-> <<Imu>>, calib |-> "ok"]

Profiles == {GoodSession, NoImuSession, NoBagSession}

\* The sensors and calibration states generate_config is exercised with.
VelodyneRear == [name |-> "Velodyne_Rear", frame_id |-> "velodyne_rear", cloud_topic |-> "/rear/points"]
Hesai        == [name |-> "hesai_front", frame_id |-> "hesai", cloud_topic |-> "/hesai/points"]
OusterBare   == [name |-> "ouster_bare", frame_id |-> "os_bare", cloud_topic |-> ""]
ImuBare      == [name |-> "imu_raw", frame_id |-> "imu_raw", imu_topic |-> ""]

Lidars == {Velodyne, VelodyneRear, Ouster, Hesai, OusterBare}
LidarLists == UNION {[1..n -> Lidars] : n \in 0..MaxLidars}
ImuLists == {<<>>, <<Imu>>, <<ImuBare>>}
Calibrations == {"ok", "missing", "no_transforms", "no_path"}

GenProfiles ==
    {[has_bags |-> TRUE, lidars_3d |-> ls, imus |-> im, calib |-> c] :
        ls \in LidarLists, im \in ImuLists, c \in Calibrations}

Stages == {"liosam_config", "liosam"}
Groups == {"liosam", "liosam2"}
NoFiles == [g \in Groups |-> [config |-> <<>>, bag |-> <<>>]]

VARIABLES
    dataset,        \* the sessions of the dataset, by session id
    files,          \* files[id][group]: the documents in liosam_config.yaml, the captures in liosam_processed.bag
    run,            \* number of the current command invocation
    cmd,            \* "batch" | "single"
    force,          \* --force
    filtered,       \* ids of the sessions the command works on, in order
    idx,            \* position in filtered of the session in work (0: none yet)
    pc,             \* position of the controlling thread
    stage,          \* process_name of the pipeline.run call in flight
    force_arg,      \* force= argument of the pipeline.run call in flight
    group,          \* output_dir= argument of the pipeline.run call in flight
    result,         \* how the pipeline.run call ended: "none" | "ok" | "error" | "interrupt"
    exc,            \* exception unwinding through the scopes of liosam_processor
    proc,           \* supervised LIO-SAM process: "none" | "running" | "terminated"
    rec,            \* recording: "none" | "open" | "closed"
    term_count,     \* terminations of the supervised process in this stage execution
    close_count,    \* closings of the recording in this stage execution
    events,         \* scope events of this stage execution
    success_count,
    fail_count,
    summary,        \* the lines of the printed summary, <<>> before it is printed
    exit_code,      \* -1 while running
    intr,           \* where user interrupts were delivered: "outside", "loop", a stage name
    attempted,      \* ids whose first stage was handed to pipeline.run in this invocation
    config_ok,      \* ids whose liosam_config run returned without error in this invocation
    proc_started,   \* ids whose liosam run was started in this invocation
    raised,         \* <<id, stage>> whose stage raised an error in this invocation
    invoked,        \* <<id, stage>> whose stage body was invoked in this invocation
    pre_done,       \* ids whose two artifacts existed when their chain began
    last_error,     \* message of the exception a stage raised, "none" when none is pending
    base_config,    \* config/params.yaml exists
    registry,       \* stage names in the order register_process bound them
    sys_modules     \* modules of the scripts whose body has been executed

vars == <<dataset, files, run, cmd, force, filtered, idx, pc, stage, force_arg, group,
          result, exc, proc, rec, term_count, close_count, events, success_count,
          fail_count, summary, exit_code, intr, attempted, config_ok, proc_started,
          raised, invoked, pre_done, last_error, base_config, registry, sys_modules>>

interp == <<base_config, registry, sys_modules>>
ctl == <<stage, force_arg, group, result>>
scopes == <<exc, proc, rec, term_count, close_count, events>>
tally == <<success_count, fail_count>>
hist == <<attempted, config_ok, proc_started, raised, invoked, pre_done>>
hist_ret == <<attempted, proc_started, raised, invoked, pre_done>>
world == <<dataset, files, run, cmd, force, filtered>>

SessionIds == 1..NumSessions

\* What ds.filter returns: the first k sessions of the dataset, in dataset
\* order (the dataset itself ranges over every sequence of profiles).
Filtered == {[i \in 1..k |-> i] : k \in 0..NumSessions}

sid == filtered[idx]
session == dataset[sid]

\* ------------------------------------------------ liosam_config.py (pure)
\* config/lidar_presets.yaml: the vendors that have a preset.
Presets == {"velodyne", "ouster"}

\* Lines 55-61: prefer velodyne, otherwise the first LiDAR.
RECURSIVE FirstVelodyne(_)
FirstVelodyne(ls) ==
    IF ls = <<>> THEN <<>>
    ELSE IF Contains(Lower(Head(ls).name), "velodyne") THEN <<Head(ls)>>
    ELSE FirstVelodyne(Tail(ls))

\* SelectLidar taking the first LiDAR whatever its name.
SelectLidar_first(ls) == ls[1]

\* Lines 55-61: the first velodyne, otherwise the first LiDAR.
SelectLidar(ls) ==
    IF FirstVelodyne(ls) # <<>> THEN FirstVelodyne(ls)[1] ELSE ls[1]

\* Lines 104-108: the first of velodyne, ouster the lowered name contains.
DetectVendor(lidar) ==
    IF Contains(Lower(lidar.name), "velodyne") THEN "velodyne"
    ELSE IF Contains(Lower(lidar.name), "ouster") THEN "ouster"
    ELSE "none"

\* The error generate_config raises for session s, "none" if it reaches the
\* write of liosam_config.yaml.
ConfigError(s) ==
    IF s.lidars_3d = <<>> THEN "No 3D LiDAR sensor found in session"
    ELSE IF s.imus = <<>> THEN "No IMU sensor found in session"
    ELSE IF s.calib = "missing" THEN "Calibration file not found"
    ELSE IF s.calib = "no_transforms" THEN "No transforms found in calibration file"
    ELSE IF s.calib = "no_path" THEN "Transform not found"
    ELSE IF DetectVendor(SelectLidar(s.lidars_3d)) = "none" THEN "Unknown LiDAR vendor in name"
    ELSE IF DetectVendor(SelectLidar(s.lidars_3d)) \notin Presets THEN "No preset found for vendor"
    ELSE IF SelectLidar(s.lidars_3d).cloud_topic = "" THEN "No point cloud topic found for LiDAR"
    ELSE IF s.imus[1].imu_topic = "" THEN "No IMU topic found for IMU"
    ELSE IF ~base_config THEN "Base config not found"
    ELSE "none"

\* Lines 133-149: the document written for session s, the base config
\* updated with the topics, the LiDAR frame and the vendor's preset.
ConfigDocument(s) ==
    [pointCloudTopic |-> SelectLidar(s.lidars_3d).cloud_topic,
     imuTopic |-> s.imus[1].imu_topic,
     lidarFrame |-> SelectLidar(s.lidars_3d).frame_id,
     baselinkFrame |-> "base_link",
     sensor |-> DetectVendor(SelectLidar(s.lidars_3d))]

\* WriteConfig opening the file in append mode.
WriteConfig_appends(old, new) == Append(old, new)

\* Line 153: open(output_file, "w") replaces what the file held.
WriteConfig(old, new) == <<new>>

\* ------------------------------------------------------------------- Init
Commands == {"batch", "single"}

\* What one command line selects: the batch filter any sub-collection of the
\* dataset, the single-session command one session.
Selections(c) ==
    IF c = "batch" THEN Filtered ELSE {<<i>> : i \in SessionIds}

Fresh(c, f, sel) ==
    /\ cmd = c /\ force = f /\ filtered = sel
    /\ idx = 0 /\ pc = "import"
    /\ registry = <<>> /\ sys_modules = {} /\ last_error = "none"
    /\ stage = "none" /\ force_arg = FALSE /\ group = "none" /\ result = "none"
    /\ exc = "none" /\ proc = "none" /\ rec = "none"
    /\ term_count = 0 /\ close_count = 0 /\ events = <<>>
    /\ success_count = 0 /\ fail_count = 0
    /\ summary = <<>> /\ exit_code = -1 /\ intr = {}
    /\ attempted = {} /\ config_ok = {} /\ proc_started = {} /\ raised = {}
    /\ invoked = {} /\ pre_done = {}

Init ==
    /\ dataset \in [SessionIds -> Profiles]
    /\ files = [i \in SessionIds |-> NoFiles]
    /\ run = 1
    /\ base_config = TRUE
    /\ \E c \in Commands, f \in BOOLEAN : \E sel \in Selections(c) : Fresh(c, f, sel)

\* --------------------------------------------------- xbag: pipeline.run
\* The stage's primary artifact inside the output directory.
Artifact(fs, st) == IF st = "liosam_config" THEN fs.config ELSE fs.bag

out_files == files[sid][group]

\* Idempotency check: not forced and the primary artifact exists, non-empty.
ShouldSkip(f, content) == ~f /\ content # <<>>

Call(id, st, f, g) ==
    /\ stage' = st /\ force_arg' = f /\ group' = g /\ result' = "none"
    /\ proc_started' = IF st = "liosam" THEN proc_started \cup {id} ELSE proc_started
    /\ last_error' = "none"
    /\ pc' = "call"

Return(r) ==
    /\ result' = r /\ pc' = "ret"
    /\ config_ok' = IF stage = "liosam_config" /\ r = "ok"
                    THEN config_ok \cup {sid} ELSE config_ok

\* StageRegistry.resolve: the name is bound.
Resolves(reg, st) == \E i \in 1..Len(reg) : reg[i] = st

\* Already done: Skipped, the stage body is not invoked.
PipelineRunSkip ==
    /\ pc = "call"
    /\ Resolves(registry, stage)
    /\ ShouldSkip(force_arg, Artifact(out_files, stage))
    /\ Return("ok")
    /\ UNCHANGED <<interp, last_error, world, idx, stage, force_arg, group, scopes, tally, summary,
                   exit_code, intr, hist_ret>>

\* Otherwise the output directory is ensured and the stage body invoked; a
\* name the registry does not hold raises UnknownStageError before that.
PipelineRunInvoke ==
    /\ pc = "call"
    /\ ~Resolves(registry, stage) \/ ~ShouldSkip(force_arg, Artifact(out_files, stage))
    /\ IF Resolves(registry, stage)
       THEN /\ invoked' = invoked \cup {<<sid, stage>>}
            /\ pc' = IF stage = "liosam_config" THEN "generate_config" ELSE "liosam_processor"
            /\ UNCHANGED <<result, config_ok, raised, last_error>>
       ELSE /\ raised' = raised \cup {<<sid, stage>>}
            /\ last_error' = "UnknownStageError"
            /\ Return("error")
            /\ UNCHANGED invoked
    /\ exc' = "none" /\ proc' = "none" /\ rec' = "none"
    /\ term_count' = 0 /\ close_count' = 0 /\ events' = <<>>
    /\ UNCHANGED <<interp, world, idx, stage, force_arg, group, tally, summary,
                   exit_code, intr, attempted, proc_started, pre_done>>

\* A user interrupt while the engine is outside the stage body.
PipelineRunInterrupted ==
    /\ pc = "call"
    /\ intr' = intr \cup {stage}
    /\ Return("interrupt")
    /\ UNCHANGED <<interp, last_error, world, idx, stage, force_arg, group, scopes, tally, summary,
                   exit_code, hist_ret>>

\* After the body returned: every declared artifact must exist.
Verified(fs, st) == IF Artifact(fs, st) # <<>> THEN "ok" ELSE "error"

\* ------------------------------------------- liosam_config.generate_config
\* generate_config_raises with the output file opened before the checks.
generate_config_raises_truncates ==
    /\ pc = "generate_config"
    /\ ConfigError(session) # "none"
    /\ raised' = raised \cup {<<sid, stage>>}
    /\ last_error' = ConfigError(session)
    /\ files' = [files EXCEPT ![sid][group].config = <<>>]
    /\ Return("error")
    /\ UNCHANGED <<interp, dataset, run, cmd, force, filtered, idx, stage, force_arg, group,
                   scopes, tally, summary, exit_code, intr, attempted, proc_started, invoked,
                   pre_done>>

\* Lines 50-133: one of the checks raises.
generate_config_raises ==
    /\ pc = "generate_config"
    /\ ConfigError(session) # "none"
    /\ raised' = raised \cup {<<sid, stage>>}
    /\ last_error' = ConfigError(session)
    /\ Return("error")
    /\ UNCHANGED <<interp, world, idx, stage, force_arg, group, scopes, tally, summary,
                   exit_code, intr, attempted, proc_started, invoked, pre_done>>

\* Lines 152-154: the file is written after every check.
generate_config_writes ==
    /\ pc = "generate_config"
    /\ ConfigError(session) = "none"
    /\ files' = [files EXCEPT ![sid][group].config = WriteConfig(@, ConfigDocument(session))]
    /\ Return(Verified(files'[sid][group], stage))
    /\ UNCHANGED <<interp, last_error, dataset, run, cmd, force, filtered, idx, stage, force_arg, group,
                   scopes, tally, summary, exit_code, intr, hist_ret>>

\* A user interrupt inside the body, before or after the file was written.
generate_config_interrupted ==
    /\ pc = "generate_config"
    /\ \E written \in BOOLEAN :
          files' = IF written /\ ConfigError(session) = "none"
                   THEN [files EXCEPT ![sid][group].config = WriteConfig(@, ConfigDocument(session))]
                   ELSE files
    /\ intr' = intr \cup {stage}
    /\ Return("interrupt")
    /\ UNCHANGED <<interp, last_error, dataset, run, cmd, force, filtered, idx, stage, force_arg, group,
                   scopes, tally, summary, exit_code, hist_ret>>

\* ------------------------------------------ process_liosam.liosam_processor
Emit(e) == events' = Append(events, e)

\* How a scope body, a scope entry or the replay can end.
Outcomes == {"none", "error", "interrupt"}

\* What the xbag scopes do to their resource: ManagedProcess spawns the
\* process on entry and terminates it on exit, bag.record finalizes the
\* sink on exit.
Spawned == "running"
Terminated == "terminated"
Finalized == "closed"

\* ProcessorGuardError without the check of session.has_bags.
ProcessorGuardError_ignores_bags(s, fs) ==
    IF fs.config = <<>> THEN "Config file not found" ELSE "none"

\* Lines 29-38: no raw bags, or liosam_config.yaml missing in output_dir.
ProcessorGuardError(s, fs) ==
    IF ~s.has_bags THEN "Session has no bag files"
    ELSE IF fs.config = <<>> THEN "Config file not found"
    ELSE "none"

liosam_processor_guard_raises ==
    /\ pc = "liosam_processor"
    /\ ProcessorGuardError(session, out_files) # "none"
    /\ raised' = raised \cup {<<sid, stage>>}
    /\ last_error' = ProcessorGuardError(session, out_files)
    /\ Return("error")
    /\ UNCHANGED <<interp, world, idx, stage, force_arg, group, scopes, tally, summary,
                   exit_code, intr, attempted, proc_started, invoked, pre_done>>

liosam_processor_guard_passes ==
    /\ pc = "liosam_processor"
    /\ ProcessorGuardError(session, out_files) = "none"
    /\ pc' = "ManagedProcess_enter"
    /\ UNCHANGED <<interp, last_error, world, idx, ctl, scopes, tally, summary, exit_code, intr, hist>>

\* Line 51, scope entry: the process is spawned, or the launch fails before
\* the scope body runs.
ManagedProcess_enter ==
    /\ pc = "ManagedProcess_enter"
    /\ proc' = Spawned
    /\ Emit("process_started")
    /\ pc' = "record_enter"
    /\ UNCHANGED <<interp, last_error, world, idx, ctl, exc, rec, term_count, close_count, tally,
                   summary, exit_code, intr, hist>>

ManagedProcess_enter_fails ==
    /\ pc = "ManagedProcess_enter"
    /\ raised' = raised \cup {<<sid, stage>>}
    /\ last_error' = "ProcessLaunchError"
    /\ Return("error")
    /\ UNCHANGED <<interp, world, idx, stage, force_arg, group, scopes, tally, summary,
                   exit_code, intr, attempted, proc_started, invoked, pre_done>>

\* Line 53, scope entry of xb.bag.record inside the process scope.
record_enter ==
    /\ pc = "record_enter"
    /\ rec' = "open"
    /\ Emit("recording_opened")
    /\ pc' = "play"
    /\ UNCHANGED <<interp, last_error, world, idx, ctl, exc, proc, term_count, close_count, tally,
                   summary, exit_code, intr, hist>>

\* The recording cannot be opened, or the user interrupts before it is:
\* the exception leaves the body of the process scope.
record_enter_fails ==
    /\ pc = "record_enter"
    /\ \E o \in Outcomes \ {"none"} :
          /\ exc' = o
          /\ raised' = IF o = "error" THEN raised \cup {<<sid, stage>>} ELSE raised
          /\ last_error' = IF o = "error" THEN "Recording could not be opened" ELSE last_error
          /\ intr' = IF o = "interrupt" THEN intr \cup {stage} ELSE intr
    /\ pc' = "ManagedProcess_exit"
    /\ UNCHANGED <<interp, world, idx, ctl, proc, rec, term_count, close_count, events,
                   tally, summary, exit_code, attempted, config_ok, proc_started,
                   invoked, pre_done>>

\* Line 62: xb.session.play is called ...
play_starts ==
    /\ pc = "play"
    /\ Emit("replay_started")
    /\ pc' = "playing"
    /\ UNCHANGED <<interp, last_error, world, idx, ctl, exc, proc, rec, term_count, close_count, tally,
                   summary, exit_code, intr, hist>>

\* AfterPlay with cleanup on the normal path only.
AfterPlay_no_unwind(o) == IF o = "none" THEN "record_exit" ELSE "ret"

\* AfterPlay with the process scope closed before the recording.
AfterPlay_process_first(o) == "ManagedProcess_exit"

\* Where control goes when the replay ended with outcome o: every way out
\* of the body of a with statement runs the scope's exit.
AfterPlay(o) == "record_exit"

\* ... and returns, raises an error or is interrupted by the user.
play_ends ==
    /\ pc = "playing"
    /\ \E o \in Outcomes :
          /\ exc' = o
          /\ raised' = IF o = "error" THEN raised \cup {<<sid, stage>>} ELSE raised
          /\ last_error' = IF o = "error" THEN "Replay failed" ELSE last_error
          /\ intr' = IF o = "interrupt" THEN intr \cup {stage} ELSE intr
          /\ pc' = AfterPlay(o)
    /\ Emit("replay_ended")
    /\ UNCHANGED <<interp, world, idx, ctl, proc, rec, term_count, close_count, tally,
                   summary, exit_code, attempted, config_ok, proc_started,
                   invoked, pre_done>>

\* Lines 55-59: what the recording captures, the three recorded topics.
Capture == [topics |-> {"/lio_sam/mapping/path", "/odometry/imu", "/tf"}]

\* The sink a closed recording leaves: finalized, holding this run's capture.
WriteBag(old, new) == <<new>>

\* Scope exit of xb.bag.record: the sink is flushed and finalized.
record_exit ==
    /\ pc = "record_exit"
    /\ rec' = Finalized
    /\ close_count' = close_count + 1
    /\ files' = [files EXCEPT ![sid][group].bag = WriteBag(@, Capture)]
    /\ Emit("recording_closed")
    /\ pc' = "ManagedProcess_exit"
    /\ UNCHANGED <<interp, last_error, dataset, run, cmd, force, filtered, idx, ctl, exc, proc,
                   term_count, tally, summary, exit_code, intr, hist>>

\* ManagedProcess_exit leaving the process running.
ManagedProcess_exit_leaks ==
    /\ pc = "ManagedProcess_exit"
    /\ Emit("process_terminated")
    /\ Return(IF exc = "none" THEN Verified(out_files, stage) ELSE exc)
    /\ UNCHANGED <<interp, last_error, world, idx, stage, force_arg, group, exc, proc, rec,
                   term_count, close_count, tally, summary, exit_code, intr, hist_ret>>

\* Scope exit of ManagedProcess: the process is terminated; then line 69
\* returns the bag, or the exception in flight leaves liosam_processor.
ManagedProcess_exit ==
    /\ pc = "ManagedProcess_exit"
    /\ proc' = Terminated
    /\ term_count' = term_count + 1
    /\ Emit("process_terminated")
    /\ Return(IF exc = "none" THEN Verified(out_files, stage) ELSE exc)
    /\ UNCHANGED <<interp, last_error, world, idx, stage, force_arg, group, exc, rec, close_count,
                   tally, summary, exit_code, intr, hist_ret>>

\* ------------------------------------------------ import of the scripts
\* liosam_config.py line 39: the module body binds "liosam_config".
ExecLiosamConfig(reg) == Append(reg, "liosam_config")

\* ImportLiosamConfig executing the module body on every import.
ImportLiosamConfig_reexecutes(mods, reg) == ExecLiosamConfig(reg)

\* from liosam_config import generate_config: the module body is executed
\* on the first import only.
ImportLiosamConfig(mods, reg) ==
    IF "liosam_config" \in mods THEN reg ELSE ExecLiosamConfig(reg)

\* process_liosam.py line 17: the module body binds "liosam".
RegisterLiosam(reg) == Append(reg, "liosam")

\* process_liosam.py lines 14-18 executed as an imported module: it imports
\* liosam_config, then binds "liosam".
ExecProcessLiosam(mods, reg) == RegisterLiosam(ImportLiosamConfig(mods, reg))

\* StageRegistry.register fails with DuplicateStageError on a bound name.
Duplicate(reg) == \E i, j \in 1..Len(reg) : i < j /\ reg[i] = reg[j]

\* process_liosam_batch.py line 15, process_liosam.py line 14.
import_liosam_config ==
    /\ pc = "import"
    /\ registry' = ImportLiosamConfig(sys_modules, registry)
    /\ sys_modules' = sys_modules \cup {"liosam_config"}
    /\ pc' = "import_process_liosam"
    /\ UNCHANGED <<base_config, last_error, world, idx, ctl, scopes, tally, summary,
                   exit_code, intr, hist>>

\* process_liosam_batch.py line 16 imports process_liosam; in the
\* single-session command process_liosam.py is the main script and goes on
\* to its line 17.  A DuplicateStageError out of a module body ends the
\* program before main.
import_process_liosam ==
    /\ pc = "import_process_liosam"
    /\ IF cmd = "batch"
       THEN /\ registry' = ExecProcessLiosam(sys_modules, registry)
            /\ sys_modules' = sys_modules \cup {"process_liosam"}
       ELSE /\ registry' = RegisterLiosam(registry)
            /\ sys_modules' = sys_modules
    /\ IF Duplicate(registry')
       THEN exit_code' = 1 /\ pc' = "done"
       ELSE exit_code' = exit_code /\ pc' = "start"
    /\ UNCHANGED <<base_config, last_error, world, idx, ctl, scopes, tally, summary,
                   intr, hist>>

\* ------------------------------------------------------------------ click
\* click's standalone mode: an Abort, or a KeyboardInterrupt that escapes
\* main, ends the program with "Aborted!" and this code.
ClickAbort == 1
\* process_liosam.py line 117.
InterruptExit == 130

Exit(code) == exit_code' = code /\ pc' = "done"

\* ------------------------------------------ process_liosam_batch.main
\* BatchForce always forcing.
BatchForce_always(f) == TRUE

\* Lines 71 and 84: force=force.
BatchForce(f) == f
\* Lines 70 and 83: output_dir="liosam".
BatchGroup == "liosam"

Done(fs) == fs.config # <<>> /\ fs.bag # <<>>

\* Lines 40-42: the filter matched nothing.
batch_no_sessions ==
    /\ pc = "start" /\ cmd = "batch"
    /\ filtered = <<>>
    /\ Exit(0)
    /\ UNCHANGED <<interp, last_error, world, idx, ctl, scopes, tally, summary, intr, hist>>

\* Lines 44-59.
batch_begin ==
    /\ pc = "start" /\ cmd = "batch"
    /\ filtered # <<>>
    /\ success_count' = 0 /\ fail_count' = 0
    /\ pc' = "loop"
    /\ UNCHANGED <<interp, last_error, world, idx, ctl, scopes, summary, exit_code, intr, hist>>

\* Lines 60-72: the next session, its config generation.
batch_next_session ==
    /\ pc = "loop" /\ idx < Len(filtered)
    /\ idx' = idx + 1
    /\ attempted' = attempted \cup {filtered[idx + 1]}
    /\ pre_done' = IF Done(files[filtered[idx + 1]][BatchGroup])
                   THEN pre_done \cup {filtered[idx + 1]} ELSE pre_done
    /\ Call(filtered[idx + 1], "liosam_config", BatchForce(force), BatchGroup)
    /\ UNCHANGED <<interp, world, scopes, tally, summary, exit_code, intr, config_ok,
                   raised, invoked>>

\* Line 60: the collection is exhausted.
batch_loop_ends ==
    /\ pc = "loop" /\ idx = Len(filtered)
    /\ pc' = "summary"
    /\ UNCHANGED <<interp, last_error, world, idx, ctl, scopes, tally, summary, exit_code, intr, hist>>

\* Lines 78-85: config returned, LIO-SAM processing.
batch_config_ok ==
    /\ pc = "ret" /\ cmd = "batch" /\ stage = "liosam_config" /\ result = "ok"
    /\ Call(sid, "liosam", BatchForce(force), BatchGroup)
    /\ UNCHANGED <<interp, world, idx, scopes, tally, summary, exit_code, intr, attempted,
                   config_ok, raised, invoked, pre_done>>

\* batch_config_failed leaving the loop at the first failure.
batch_config_failed_breaks ==
    /\ pc = "ret" /\ cmd = "batch" /\ stage = "liosam_config" /\ result = "error"
    /\ fail_count' = fail_count + 1
    /\ pc' = "summary"
    /\ UNCHANGED <<interp, last_error, world, idx, ctl, scopes, success_count, summary, exit_code,
                   intr, hist>>

\* batch_config_failed without the continue: falls through to processing.
batch_config_failed_falls_through ==
    /\ pc = "ret" /\ cmd = "batch" /\ stage = "liosam_config" /\ result = "error"
    /\ fail_count' = fail_count + 1
    /\ Call(sid, "liosam", BatchForce(force), BatchGroup)
    /\ UNCHANGED <<interp, world, idx, scopes, success_count, summary, exit_code, intr,
                   attempted, config_ok, raised, invoked, pre_done>>

\* batch_config_failed counting the session as completed.
batch_config_failed_counts_success ==
    /\ pc = "ret" /\ cmd = "batch" /\ stage = "liosam_config" /\ result = "error"
    /\ success_count' = success_count + 1
    /\ pc' = "loop"
    /\ UNCHANGED <<interp, last_error, world, idx, ctl, scopes, fail_count, summary, exit_code,
                   intr, hist>>

\* Lines 73-76: except Exception, count, continue.
batch_config_failed ==
    /\ pc = "ret" /\ cmd = "batch" /\ stage = "liosam_config" /\ result = "error"
    /\ fail_count' = fail_count + 1
    /\ pc' = "loop"
    /\ UNCHANGED <<interp, last_error, world, idx, ctl, scopes, success_count, summary, exit_code,
                   intr, hist>>

\* batch_process_ok without the increment.
batch_process_ok_uncounted ==
    /\ pc = "ret" /\ cmd = "batch" /\ stage = "liosam" /\ result = "ok"
    /\ pc' = "loop"
    /\ UNCHANGED <<interp, last_error, world, idx, ctl, scopes, tally, summary, exit_code,
                   intr, hist>>

\* Line 86.
batch_process_ok ==
    /\ pc = "ret" /\ cmd = "batch" /\ stage = "liosam" /\ result = "ok"
    /\ success_count' = success_count + 1
    /\ pc' = "loop"
    /\ UNCHANGED <<interp, last_error, world, idx, ctl, scopes, fail_count, summary, exit_code,
                   intr, hist>>

\* Lines 87-89.
batch_process_failed ==
    /\ pc = "ret" /\ cmd = "batch" /\ stage = "liosam" /\ result = "error"
    /\ fail_count' = fail_count + 1
    /\ pc' = "loop"
    /\ UNCHANGED <<interp, last_error, world, idx, ctl, scopes, success_count, summary, exit_code,
                   intr, hist>>

\* batch_KeyboardInterrupt without the outer try: the interrupt escapes main.
batch_KeyboardInterrupt_escapes ==
    /\ pc = "ret" /\ cmd = "batch" /\ result = "interrupt"
    /\ Exit(ClickAbort)
    /\ UNCHANGED <<interp, last_error, world, idx, ctl, scopes, tally, summary, intr, hist>>

\* batch_KeyboardInterrupt handled per session like an error.
batch_KeyboardInterrupt_continues ==
    /\ pc = "ret" /\ cmd = "batch" /\ result = "interrupt"
    /\ fail_count' = fail_count + 1
    /\ pc' = "loop"
    /\ UNCHANGED <<interp, last_error, world, idx, ctl, scopes, success_count, summary, exit_code,
                   intr, hist>>

\* Lines 91-93: a KeyboardInterrupt out of either stage leaves the loop.
batch_KeyboardInterrupt ==
    /\ pc = "ret" /\ cmd = "batch" /\ result = "interrupt"
    /\ pc' = "summary"
    /\ UNCHANGED <<interp, last_error, world, idx, ctl, scopes, tally, summary, exit_code, intr, hist>>

\* Lines 60-63, 75, 86, 89: a user interrupt between two pipeline.run calls.
batch_interrupted_in_loop ==
    /\ cmd = "batch"
    /\ pc = "loop" \/ (pc = "ret" /\ result \in {"ok", "error"})
    /\ intr' = intr \cup {"loop"}
    /\ pc' = "summary"
    /\ UNCHANGED <<interp, last_error, world, idx, ctl, scopes, tally, summary, exit_code, hist>>

\* BatchExit ignoring the failures.
BatchExit_never(failed) == 0

\* Lines 104-105: click.Abort when a session failed.
BatchExit(failed) == IF failed # 0 THEN ClickAbort ELSE 0

\* Lines 99-102: the lines of the summary; "Failed" only when non-zero.
SummaryLines(total, completed, failed) ==
    <<[label |-> "Total", n |-> total], [label |-> "Completed", n |-> completed]>>
        \o (IF failed # 0 THEN <<[label |-> "Failed", n |-> failed]>> ELSE <<>>)

\* Lines 95-102: the summary is printed.
batch_summary ==
    /\ pc = "summary"
    /\ summary' = SummaryLines(Len(filtered), success_count, fail_count)
    /\ pc' = "abort_check"
    /\ UNCHANGED <<interp, last_error, world, idx, ctl, scopes, tally, exit_code, intr, hist>>

\* Lines 104-105: main raises click.Abort or returns.
batch_exit ==
    /\ pc = "abort_check"
    /\ Exit(BatchExit(fail_count))
    /\ UNCHANGED <<interp, last_error, world, idx, ctl, scopes, tally, summary, intr, hist>>

\* A user interrupt outside every try block (lines 37-57 and 95-105 of the
\* batch command, lines 87-92 of the single-session command) escapes main.
interrupted_outside_try ==
    /\ pc \in {"start", "summary", "abort_check"}
    /\ intr' = intr \cup {"outside"}
    /\ Exit(ClickAbort)
    /\ UNCHANGED <<interp, last_error, world, idx, ctl, scopes, tally, summary, hist>>

\* ------------------------------------------------ process_liosam.main
\* Lines 100 and 112: force=force.
SingleForce(f) == f
\* Lines 99 and 111: output_dir="liosam2".
SingleGroup == "liosam2"

\* Lines 89-92.
single_no_bags ==
    /\ pc = "start" /\ cmd = "single"
    /\ ~dataset[filtered[1]].has_bags
    /\ Exit(ClickAbort)
    /\ UNCHANGED <<interp, last_error, world, idx, ctl, scopes, tally, summary, intr, hist>>

\* Lines 94-101: step 1, the configuration.
single_begin ==
    /\ pc = "start" /\ cmd = "single"
    /\ dataset[filtered[1]].has_bags
    /\ idx' = 1
    /\ attempted' = attempted \cup {filtered[1]}
    /\ pre_done' = IF Done(files[filtered[1]][SingleGroup])
                   THEN pre_done \cup {filtered[1]} ELSE pre_done
    /\ Call(filtered[1], "liosam_config", SingleForce(force), SingleGroup)
    /\ UNCHANGED <<interp, world, scopes, tally, summary, exit_code, intr, config_ok,
                   raised, invoked>>

\* Lines 106-113: step 2, the processor.
single_config_ok ==
    /\ pc = "ret" /\ cmd = "single" /\ stage = "liosam_config" /\ result = "ok"
    /\ Call(sid, "liosam", SingleForce(force), SingleGroup)
    /\ UNCHANGED <<interp, world, idx, scopes, tally, summary, exit_code, intr, attempted,
                   config_ok, raised, invoked, pre_done>>

\* Lines 102-104.
single_config_failed ==
    /\ pc = "ret" /\ cmd = "single" /\ stage = "liosam_config" /\ result = "error"
    /\ Exit(ClickAbort)
    /\ UNCHANGED <<interp, last_error, world, idx, ctl, scopes, tally, summary, intr, hist>>

\* Lines 95-104 have no handler for KeyboardInterrupt: it escapes main.
single_config_interrupted ==
    /\ pc = "ret" /\ cmd = "single" /\ stage = "liosam_config" /\ result = "interrupt"
    /\ Exit(ClickAbort)
    /\ UNCHANGED <<interp, last_error, world, idx, ctl, scopes, tally, summary, intr, hist>>

\* Line 122.
single_process_ok ==
    /\ pc = "ret" /\ cmd = "single" /\ stage = "liosam" /\ result = "ok"
    /\ Exit(0)
    /\ UNCHANGED <<interp, last_error, world, idx, ctl, scopes, tally, summary, intr, hist>>

\* Lines 114-117.
single_process_interrupted ==
    /\ pc = "ret" /\ cmd = "single" /\ stage = "liosam" /\ result = "interrupt"
    /\ Exit(InterruptExit)
    /\ UNCHANGED <<interp, last_error, world, idx, ctl, scopes, tally, summary, intr, hist>>

\* Lines 118-120.
single_process_failed ==
    /\ pc = "ret" /\ cmd = "single" /\ stage = "liosam" /\ result = "error"
    /\ Exit(ClickAbort)
    /\ UNCHANGED <<interp, last_error, world, idx, ctl, scopes, tally, summary, intr, hist>>

\* --------------------------------------------------------- the operator
\* After a command ended, one of the two commands is run again over the
\* same dataset and the output files the earlier runs left.
run_again ==
    /\ pc = "done" /\ run < MaxRuns
    /\ run' = run + 1
    /\ \E c \in Commands, f \in BOOLEAN : \E sel \in Selections(c) :
          /\ cmd' = c /\ force' = f /\ filtered' = sel
    /\ idx' = 0 /\ pc' = "import"
    /\ registry' = <<>> /\ sys_modules' = {} /\ last_error' = "none"
    /\ stage' = "none" /\ force_arg' = FALSE /\ group' = "none" /\ result' = "none"
    /\ exc' = "none" /\ proc' = "none" /\ rec' = "none"
    /\ term_count' = 0 /\ close_count' = 0 /\ events' = <<>>
    /\ success_count' = 0 /\ fail_count' = 0
    /\ summary' = <<>> /\ exit_code' = -1 /\ intr' = {}
    /\ attempted' = {} /\ config_ok' = {} /\ proc_started' = {} /\ raised' = {}
    /\ invoked' = {} /\ pre_done' = {}
    /\ UNCHANGED <<dataset, files, base_config>>

Next ==
    \/ import_liosam_config \/ import_process_liosam
    \/ PipelineRunSkip \/ PipelineRunInvoke \/ PipelineRunInterrupted
    \/ generate_config_raises \/ generate_config_writes \/ generate_config_interrupted
    \/ liosam_processor_guard_raises \/ liosam_processor_guard_passes
    \/ ManagedProcess_enter \/ ManagedProcess_enter_fails
    \/ record_enter \/ record_enter_fails
    \/ play_starts \/ play_ends
    \/ record_exit \/ ManagedProcess_exit
    \/ batch_no_sessions \/ batch_begin \/ batch_next_session \/ batch_loop_ends
    \/ batch_config_ok \/ batch_config_failed
    \/ batch_process_ok \/ batch_process_failed
    \/ batch_KeyboardInterrupt \/ batch_interrupted_in_loop \/ batch_summary \/ batch_exit
    \/ interrupted_outside_try
    \/ single_no_bags \/ single_begin
    \/ single_config_ok \/ single_config_failed \/ single_config_interrupted
    \/ single_process_ok \/ single_process_interrupted \/ single_process_failed
    \/ run_again

Spec == Init /\ [][Next]_vars

\* ------------------------------------------- generate_config on its own
\* The single-session command up to the return of its config stage, over
\* every session of GenProfiles, with config/params.yaml present or not and
\* with or without a liosam_config.yaml an earlier run left.
InitGen ==
    /\ dataset \in {[i \in SessionIds |-> IF i = 1 THEN s ELSE GoodSession] : s \in GenProfiles}
    /\ files \in {[i \in SessionIds |->
                     IF i = 1 THEN [NoFiles EXCEPT ![SingleGroup].config = old] ELSE NoFiles] :
                  old \in {<<>>, <<ConfigDocument(GoodSession)>>}}
    /\ run = MaxRuns
    /\ base_config \in BOOLEAN
    /\ \E f \in BOOLEAN : Fresh("single", f, <<1>>)

NextGen ==
    \/ import_liosam_config \/ import_process_liosam
    \/ single_begin
    \/ PipelineRunSkip \/ PipelineRunInvoke \/ PipelineRunInterrupted
    \/ generate_config_raises \/ generate_config_writes \/ generate_config_interrupted
    \/ single_config_failed \/ single_config_interrupted

SpecGen == InitGen /\ [][NextGen]_vars

\* ================================================================ claims
Range(s) == {s[i] : i \in 1..Len(s)}
RaisedIds == {r[1] : r \in raised}
Finished(c) == cmd = c /\ pc = "done"

\* C1: failure isolation in the batch command.  In a batch of N sessions run
\* without interrupt in which exactly one session has a stage that raises,
\* every session had its first stage attempted and the printed tally is N-1
\* succeeded and 1 failed.
C1_FailureIsolation ==
    (Finished("batch") /\ filtered # <<>> /\ intr = {} /\ Cardinality(RaisedIds) = 1)
        => /\ attempted = Range(filtered)
           /\ success_count = Len(filtered) - 1
           /\ fail_count = 1
           /\ summary = <<[label |-> "Total", n |-> Len(filtered)],
                          [label |-> "Completed", n |-> Len(filtered) - 1],
                          [label |-> "Failed", n |-> 1]>>

\* A batch of two whose first session failed in a stage and whose second
\* session was processed nevertheless.
C1_Witness ==
    /\ Finished("batch") /\ intr = {} /\ Len(filtered) = 2
    /\ RaisedIds = {filtered[1]}
    /\ filtered[2] \in proc_started
    /\ success_count = 1 /\ fail_count = 1

\* C2: dependency ordering within one session's chain, in both commands.
\* The liosam stage of a session is started only after the liosam_config
\* stage of that session returned without error; a session whose config
\* stage raised never has its liosam stage started.
C2_DependencyOrdering ==
    /\ proc_started \subseteq config_ok
    /\ \A id \in proc_started : <<id, "liosam_config">> \notin raised
    /\ (stage = "liosam" /\ pc # "done") => sid \in config_ok

\* A batch in which one session's config stage raised and another
\* session's liosam stage ran to its end.
C2_Witness ==
    /\ Finished("batch")
    /\ \E a, b \in Range(filtered) :
          /\ <<a, "liosam_config">> \in raised /\ a \notin proc_started
          /\ b \in proc_started /\ <<b, "liosam">> \in invoked

InProcessor ==
    pc \in {"liosam_processor", "ManagedProcess_enter", "record_enter", "play",
            "playing", "record_exit", "ManagedProcess_exit"}
Happened(e) == e \in Range(events)

\* C3: cleanup guarantee of the process stage.  However the replay ends
\* (return, error, user interrupt), once liosam_processor has returned or
\* propagated its exception the recording was closed exactly once, the
\* supervised process was terminated exactly once, no process is alive and
\* no recording is open.
C3_CleanupGuarantee ==
    /\ term_count <= 1 /\ close_count <= 1
    /\ ~InProcessor =>
          /\ proc # "running" /\ rec # "open"
          /\ Happened("replay_ended") =>
                /\ close_count = 1 /\ rec = "closed"
                /\ term_count = 1 /\ proc = "terminated"

\* liosam_processor left by a user interrupt of the replay, both scopes closed.
C3_Witness ==
    /\ pc = "ret" /\ stage = "liosam" /\ result = "interrupt"
    /\ Happened("replay_ended")
    /\ rec = "closed" /\ proc = "terminated"

ScopeOrder ==
    <<"process_started", "recording_opened", "replay_started", "replay_ended",
      "recording_closed", "process_terminated">>
Pos(e) == CHOOSE i \in 1..Len(ScopeOrder) : ScopeOrder[i] = e

\* C4: scope nesting order in the process stage.  The scope events of an
\* execution of liosam_processor occur in the order process-started,
\* recording-opened, replay-started, replay-ended, recording-closed,
\* process-terminated (all six once the replay was started), and the
\* recording is open only while the supervised process is running.
C4_NestingOrder ==
    /\ \A i, j \in 1..Len(events) : i < j => Pos(events[i]) < Pos(events[j])
    /\ rec = "open" => proc = "running"
    /\ (Happened("replay_started") /\ ~InProcessor) => events = ScopeOrder

\* An execution whose replay raised and that went through all six events.
C4_Witness ==
    /\ pc = "ret" /\ stage = "liosam" /\ result = "error"
    /\ events = ScopeOrder

\* C5: idempotency.  Without force the body of a stage whose artifact exists
\* is not invoked: a session whose config and processed-bag artifacts existed
\* when its chain began has neither generate_config nor liosam_processor
\* invoked, and a batch over such sessions launches no process and counts
\* every session as succeeded.
C5_Idempotency ==
    ~force =>
        /\ \A id \in pre_done, st \in Stages : <<id, st>> \notin invoked
        /\ (Finished("batch") /\ intr = {} /\ Range(filtered) \subseteq pre_done) =>
              /\ success_count = Len(filtered) /\ fail_count = 0
              /\ events = <<>> /\ proc = "none"

\* A second batch run without force over sessions the first run completed.
C5_Witness ==
    /\ Finished("batch") /\ run = 2 /\ ~force /\ intr = {}
    /\ filtered # <<>> /\ Range(filtered) = pre_done
    /\ \A id \in pre_done : <<id, "liosam">> \notin invoked
    /\ success_count = Len(filtered)

Importing == pc \in {"import", "import_process_liosam"}

InPipeline ==
    pc \notin {"import", "import_process_liosam", "start", "loop", "summary", "abort_check", "done"}

\* C6: force semantics.  With force the stage body is invoked even when its
\* artifact exists, after the run the artifact holds the content of the new
\* run only, and the command line's force flag reaches both stages unchanged.
C6_ForceSemantics ==
    /\ InPipeline => force_arg = force
    /\ (force /\ pc = "ret" /\ result \in {"ok", "error"}) => <<sid, stage>> \in invoked
    /\ (force /\ pc = "ret" /\ result = "ok") =>
          Artifact(out_files, stage) =
              IF stage = "liosam_config" THEN <<ConfigDocument(session)>> ELSE <<Capture>>

\* A forced config stage that replaced the file an earlier run had written.
C6_Witness ==
    /\ pc = "ret" /\ stage = "liosam_config" /\ result = "ok"
    /\ run = 2 /\ force /\ sid \in pre_done
    /\ <<sid, "liosam_config">> \in invoked
    /\ out_files.config = <<ConfigDocument(session)>>

InterruptedInLoop == intr \cap {"loop", "liosam_config", "liosam"} # {}

\* C7: batch cancellation.  Once a user interrupt was delivered during the
\* batch loop no further session is taken up and no further stage is
\* started or invoked; control only unwinds the open scopes and passes to
\* the summary.
C7_BatchCancellation ==
    [][(cmd = "batch" /\ InterruptedInLoop /\ pc # "done") =>
          /\ idx' = idx /\ attempted' = attempted
          /\ proc_started' = proc_started /\ invoked' = invoked
          /\ pc' \in {"record_exit", "ManagedProcess_exit", "ret", "summary",
                    "abort_check", "done"}]_vars

\* A batch of two interrupted in the first session's config stage: the
\* second session was never attempted and the summary was printed.
C7_Witness ==
    /\ Finished("batch") /\ intr = {"liosam_config"}
    /\ Len(filtered) = 2 /\ attempted = {filtered[1]}
    /\ summary # <<>>

\* C8: exit codes of the single-session command: 0 when both stages
\* succeed, 130 when a user interrupt is delivered during either stage,
\* another non-zero code when a stage fails with an error.
C8_SingleExitCodes ==
    Finished("single") =>
        /\ (stage = "liosam" /\ result = "ok") => exit_code = 0
        /\ intr \cap Stages # {} => exit_code = InterruptExit
        /\ raised # {} => exit_code \notin {0, InterruptExit}

\* C9: a batch run ended by a user interrupt during the loop exits with
\* code 130.
C9_BatchInterruptExit ==
    (Finished("batch") /\ InterruptedInLoop /\ "outside" \notin intr)
        => exit_code = InterruptExit

\* C10 as stated: every batch run that terminates (all succeeded, some
\* failed, interrupted during the loop, or no session matched) has printed
\* the summary with its counts.
C10_AlwaysSummary ==
    (Finished("batch") /\ "outside" \notin intr) =>
        /\ Len(summary) >= 2
        /\ summary[1] = [label |-> "Total", n |-> Len(filtered)]
        /\ summary[2] = [label |-> "Completed", n |-> success_count]

\* C10 as amended: a batch run whose filter matched at least one session
\* and that is not interrupted outside the session loop prints Total and
\* Completed, and Failed exactly when a session failed, before it exits;
\* a run whose filter matched no session exits 0 with no summary.
C10_SummaryWhenSessions ==
    (Finished("batch") /\ "outside" \notin intr) =>
        IF filtered = <<>>
        THEN summary = <<>> /\ exit_code = 0
        ELSE /\ Len(summary) = (IF fail_count # 0 THEN 3 ELSE 2)
             /\ summary[1] = [label |-> "Total", n |-> Len(filtered)]
             /\ summary[2] = [label |-> "Completed", n |-> success_count]
             /\ fail_count # 0 => summary[3] = [label |-> "Failed", n |-> fail_count]

\* A batch interrupted by the user in the loop that printed its summary.
C10_Witness ==
    /\ Finished("batch") /\ intr = {"liosam"}
    /\ Len(summary) = 2 /\ summary[1].n = Len(filtered)

\* C11: batch exit status on failure.  A batch run that is not interrupted
\* exits non-zero exactly when at least one session was counted as failed
\* (a stage of it raised), the non-zero exit comes after the summary with
\* its Failed line was printed, and no run over a non-empty collection
\* exits before the summary.
C11_BatchExitStatus ==
    (cmd = "batch" /\ intr = {}) =>
        /\ pc = "done" => /\ exit_code # 0 <=> fail_count > 0
                          /\ fail_count > 0 <=> RaisedIds # {}
        /\ exit_code \notin {-1, 0} =>
              /\ Len(summary) = 3
              /\ summary[3] = [label |-> "Failed", n |-> fail_count]
        /\ (filtered # <<>> /\ summary = <<>>) => exit_code = -1

\* A batch that exited with click.Abort after printing one failure.
C11_Witness ==
    /\ Finished("batch") /\ intr = {}
    /\ fail_count = 1 /\ exit_code = ClickAbort
    /\ Len(summary) = 3 /\ summary[3].n = 1

\* C12: strictly sequential execution in collection order.  The supervised
\* process runs and the recording is open only inside the body of the
\* liosam stage the controlling thread is in; the sessions taken up so far
\* are the first idx sessions of the filtered collection; and the batch takes
\* up a session only from the head of the loop, the next one in collection
\* order, when every earlier session's chain has ended and been counted and
\* no process is running and no recording open.
C12_Sequential ==
    /\ [](/\ (proc = "running" \/ rec = "open") => (InProcessor /\ stage = "liosam")
          /\ cmd = "batch" => attempted = {filtered[i] : i \in 1..idx})
    /\ [][(cmd = "batch" /\ pc # "done" /\ (idx' # idx \/ attempted' # attempted)) =>
             /\ pc = "loop"
             /\ idx' = idx + 1 /\ attempted' = attempted \cup {filtered[idx + 1]}
             /\ proc # "running" /\ rec # "open"
             /\ success_count + fail_count = idx
             /\ idx > 0 => \/ filtered[idx] \in RaisedIds
                           \/ stage = "liosam" /\ result = "ok"]_vars

\* The second session of a batch handed to pipeline.run after the first
\* session's process was terminated.
C12_Witness ==
    /\ cmd = "batch" /\ idx = 2 /\ pc = "call" /\ stage = "liosam_config"
    /\ proc = "terminated" /\ term_count = 1 /\ filtered[1] \in proc_started

\* C13: the two-session scenario.  A batch over [S1, S2], S1 with 3D LiDARs,
\* an IMU and valid calibration whose stages raise nothing, S2 with a 3D
\* LiDAR and no IMU, run without interrupt: S2's config stage returns with
\* the error "No IMU sensor found", S2's process stage is never started and
\* nothing is written for S2; the run ends with Total 2, Completed 1,
\* Failed 1 and S1's output directory holds liosam_config.yaml and
\* liosam_processed.bag.
C13_TwoSessionScenario ==
    (/\ cmd = "batch" /\ filtered = <<1, 2>> /\ intr = {}
     /\ dataset[1] = GoodSession /\ dataset[2] = NoImuSession
     /\ 1 \notin RaisedIds) =>
        /\ (pc = "ret" /\ idx = 2) =>
              /\ stage = "liosam_config" /\ result = "error"
              /\ last_error = "No IMU sensor found in session"
        /\ 2 \notin proc_started
        /\ files[2][BatchGroup] = [config |-> <<>>, bag |-> <<>>]
        /\ pc = "done" =>
              /\ summary = <<[label |-> "Total", n |-> 2],
                             [label |-> "Completed", n |-> 1],
                             [label |-> "Failed", n |-> 1]>>
              /\ raised = {<<2, "liosam_config">>}
              /\ last_error = "No IMU sensor found in session"
              /\ files[1][BatchGroup] = [config |-> <<ConfigDocument(GoodSession)>>,
                                         bag |-> <<Capture>>]

\* The scenario at its end, in a first run that invoked both stages of S1.
C13_Witness ==
    /\ Finished("batch") /\ filtered = <<1, 2>> /\ intr = {} /\ run = 1
    /\ dataset[1] = GoodSession /\ dataset[2] = NoImuSession
    /\ invoked = {<<1, "liosam_config">>, <<1, "liosam">>, <<2, "liosam_config">>}
    /\ raised = {<<2, "liosam_config">>}
    /\ success_count = 1 /\ fail_count = 1 /\ exit_code = ClickAbort

\* C15: registration before execution.  In both commands, once the imports
\* are done each of the stage names "liosam_config" and "liosam" is bound
\* in the registry exactly once, no pipeline.run call is made before that,
\* and the registry changes only during the imports of a program run, when
\* no session has been taken up.
C15_RegisteredOnce ==
    /\ [](~Importing =>
            /\ Len(registry) = 2
            /\ \A st \in Stages :
                  Cardinality({i \in 1..Len(registry) : registry[i] = st}) = 1)
    /\ [](Importing => (attempted = {} /\ invoked = {} /\ stage = "none"))
    /\ [][(registry' # registry /\ pc # "done") =>
             (Importing /\ attempted' = {} /\ invoked' = {})]_vars

\* The batch command in its first pipeline.run call, both names bound once,
\* liosam_config imported by the script and again by process_liosam.
C15_Witness ==
    /\ cmd = "batch" /\ pc = "call" /\ idx = 1 /\ stage = "liosam_config"
    /\ registry = <<"liosam_config", "liosam">>
    /\ sys_modules = {"liosam_config", "process_liosam"}

AtSummary == pc \in {"summary", "abort_check", "done"}

\* C17 as stated: at the summary of a batch succeeded + failed equals the
\* total exactly when the run was not interrupted.
C17_TallyExactlyWhenNotInterrupted ==
    (cmd = "batch" /\ AtSummary /\ filtered # <<>> /\ "outside" \notin intr) =>
        (success_count + fail_count = Len(filtered) <=> intr = {})

\* C17 as amended: the batch tally.  succeeded + failed is the number of
\* sessions taken up, or one less while the last of them is in work; at the
\* head of the loop failed is the number of sessions a stage of which
\* raised and succeeded the number of the others, each of which had both
\* stages return; after an interrupt during a stage the session in work is
\* counted in neither counter; a run that is not interrupted ends with
\* succeeded + failed = total, and an interrupted run ends with
\* succeeded + failed = total only when the interrupt came in the loop
\* after the last session was counted.
C17_Tally ==
    cmd = "batch" =>
        /\ success_count + fail_count \in {idx - 1, idx} \cap (0..Len(filtered))
        /\ fail_count <= Cardinality(RaisedIds)
        /\ success_count <= Cardinality((config_ok \cap proc_started) \ RaisedIds)
        /\ pc = "loop" =>
              /\ fail_count = Cardinality(RaisedIds)
              /\ success_count = Cardinality(attempted \ RaisedIds)
              /\ (attempted \ RaisedIds) \subseteq (config_ok \cap proc_started)
        /\ (AtSummary /\ intr \cap Stages # {}) =>
              /\ success_count + fail_count = idx - 1
              /\ fail_count = Cardinality(RaisedIds)
              /\ filtered[idx] \notin RaisedIds
        /\ (AtSummary /\ intr = {}) => success_count + fail_count = Len(filtered)
        /\ (AtSummary /\ intr # {} /\ "outside" \notin intr
                /\ success_count + fail_count = Len(filtered)) =>
              (intr = {"loop"} /\ idx = Len(filtered))

\* A batch of two interrupted during the second session's process stage:
\* the first session is counted, the second in neither counter.
C17_Witness ==
    /\ Finished("batch") /\ intr = {"liosam"} /\ Len(filtered) = 2 /\ idx = 2
    /\ success_count = 1 /\ fail_count = 0

\* The LiDAR the claims expect generate_config to use: the one at the least
\* position whose lowered name contains "velodyne", the first if none does.
ExpectedLidar(ls) ==
    LET vs == {i \in 1..Len(ls) : Contains(Lower(ls[i].name), "velodyne")}
    IN  IF vs = {} THEN ls[1] ELSE ls[CHOOSE i \in vs : \A j \in vs : i <= j]

NoVendor(lidar) ==
    ~Contains(Lower(lidar.name), "velodyne") /\ ~Contains(Lower(lidar.name), "ouster")

\* Every validation of generate_config passes for session s.
AllValid(s) ==
    /\ s.lidars_3d # <<>> /\ s.imus # <<>> /\ s.calib = "ok"
    /\ ~NoVendor(ExpectedLidar(s.lidars_3d))
    /\ ExpectedLidar(s.lidars_3d).cloud_topic # "" /\ s.imus[1].imu_topic # ""
    /\ base_config

\* C18: the config stage writes last.  liosam_config.yaml is created or
\* replaced only by a generate_config for which every validation passes
\* (3D LiDAR, IMU, calibration file, transform, vendor, both topics, base
\* config); a generate_config for which one of them fails ends with an
\* error or an interrupt and leaves every file as it was, and a config stage
\* that returned an error over a directory without the artifact leaves the
\* directory without it.
C18_WritesLast ==
    /\ [][files' # files =>
             /\ pc = "generate_config" /\ AllValid(session)
             /\ files' = [files EXCEPT ![sid][group].config = <<ConfigDocument(session)>>]]_vars
    /\ [][(pc = "generate_config" /\ ~AllValid(session)) =>
             /\ files' = files
             /\ pc' = "ret" /\ result' \in {"error", "interrupt"}]_vars
    /\ []((pc = "ret" /\ stage = "liosam_config" /\ result = "error") =>
             /\ ~AllValid(session)
             /\ <<sid, stage>> \in invoked
             /\ sid \notin config_ok)

\* A forced config stage that failed on the missing base config and left
\* the liosam_config.yaml of an earlier run as it was.
C18_Witness ==
    /\ pc = "ret" /\ stage = "liosam_config" /\ result = "error"
    /\ force /\ ~base_config /\ last_error = "Base config not found"
    /\ out_files.config = <<ConfigDocument(GoodSession)>>

\* C19 as stated: the config stage of a session with 3D LiDARs fails with
\* the unknown-vendor error exactly when the name of the selected sensor
\* contains neither "velodyne" nor "ouster".
C19_UnknownVendorExactly ==
    (/\ pc = "ret" /\ stage = "liosam_config" /\ <<sid, stage>> \in invoked
     /\ result \in {"ok", "error"} /\ session.lidars_3d # <<>>) =>
        ((result = "error" /\ last_error = "Unknown LiDAR vendor in name")
            <=> NoVendor(ExpectedLidar(session.lidars_3d)))

\* C19 as amended: the sensor generate_config uses is the first in list
\* order whose lowered name contains "velodyne", the first of the list when
\* none does; and when the IMU, calibration and transform checks have
\* passed, the stage fails with the unknown-vendor error exactly when the
\* name of that sensor contains neither "velodyne" nor "ouster", whatever
\* the other sensors of the list are.
C19_LidarSelection ==
    (/\ pc = "ret" /\ stage = "liosam_config" /\ <<sid, stage>> \in invoked
     /\ result \in {"ok", "error"} /\ session.lidars_3d # <<>>) =>
        /\ (session.imus # <<>> /\ session.calib = "ok") =>
              ((result = "error" /\ last_error = "Unknown LiDAR vendor in name")
                  <=> NoVendor(ExpectedLidar(session.lidars_3d)))
        /\ last_error = "Unknown LiDAR vendor in name" =>
              NoVendor(ExpectedLidar(session.lidars_3d))
        /\ result = "ok" =>
              /\ Len(out_files.config) = 1
              /\ out_files.config[1].lidarFrame = ExpectedLidar(session.lidars_3d).frame_id
              /\ out_files.config[1].pointCloudTopic =
                    ExpectedLidar(session.lidars_3d).cloud_topic
              /\ Contains(Lower(ExpectedLidar(session.lidars_3d).name),
                          out_files.config[1].sensor)

\* The first LiDAR has no recognised vendor, the second is an ouster: the
\* first is used and the stage fails with the unknown-vendor error.
C19_Witness ==
    /\ pc = "ret" /\ stage = "liosam_config" /\ result = "error"
    /\ session.lidars_3d = <<Hesai, Ouster>>
    /\ last_error = "Unknown LiDAR vendor in name"

\* C20: one stage group for both commands.  Every pipeline.run call of
\* either command uses the output group "liosam" (processed/liosam/), so
\* without force a stage body is invoked only when its artifact is missing
\* from that group.
C20_SharedGroup ==
    /\ group # "none" => group = BatchGroup
    /\ (pc \in {"generate_config", "liosam_processor"} /\ ~force_arg) =>
          Artifact(files[sid][BatchGroup], stage) = <<>>

====
